---- MODULE Spec2Model ----
\* Model of crates/kconfparse/src/lib.rs: the conversion of a pest parse tree
\* of a Kconfig file into a KConfigFile (KConfigFile::try_from,
\* TopLevel::try_from, SourceDirective::try_from, SourceType::try_from) and the
\* string-literal decoder parse_string_literal.
\*
\* A character is its Unicode code point (a natural number); a Rust &str or
\* String is a sequence of characters.  Byte lengths and byte-indexed slices
\* are computed from the UTF-8 width of each character.
EXTENDS Integers, Sequences, FiniteSets, TLC

VARIABLES
    file,         \* the parse tree handed to KConfigFile::try_from (input)
    pc,           \* the place the conversion has reached
    idx,          \* position of the `for pair in pair.into_inner()` iterator
    blocks,       \* `blocks` of KConfigFile::try_from
    source_type,  \* `source_type` of SourceDirective::try_from
    chars,        \* what the `chars` iterator of parse_string_literal still holds
    result,       \* `result` of parse_string_literal
    ret,          \* the value the callee last returned to its caller
    out,          \* what KConfigFile::try_from produced: a value or a panic
    facets        \* what the caller last read of a block's source_type

vars == <<file, pc, idx, blocks, source_type, chars, result, ret, out, facets>>

----------------------------------------------------------------------------
\* Bounds of the model.

\* Most top_level nodes of a file.
MaxDirectives == 2
\* Most units (ordinary character, escape, run of digits) between the first
\* and the last interior character of a literal of a one-directive file.
MaxUnits == 2

----------------------------------------------------------------------------
\* Character literals of the source.

QUOTE == 34
BACKSLASH == 92
CH_n == 110
CH_r == 114
CH_t == 116
CH_0 == 48
CH_APOSTROPHE == 39
CH_x == 120
CH_u == 117
LBRACE == 123
RBRACE == 125
NEWLINE == 10
CARRIAGE_RETURN == 13
TAB == 9
NUL == 0

----------------------------------------------------------------------------
\* Sequences.

RECURSIVE Concat(_)
Concat(ss) == IF ss = <<>> THEN <<>> ELSE Head(ss) \o Concat(Tail(ss))

SeqsUpTo(S, n) == UNION {[1..k -> S] : k \in 0..n}

Contains(s, c) == c \in {s[i] : i \in 1..Len(s)}

----------------------------------------------------------------------------
\* str: UTF-8 widths, byte lengths and byte-indexed slices.

\* char::len_utf8
LenUtf8(c) == IF c < 128 THEN 1 ELSE IF c < 2048 THEN 2 ELSE IF c < 65536 THEN 3 ELSE 4

\* str::len: the length in bytes.
RECURSIVE StrLen(_)
StrLen(s) == IF s = <<>> THEN 0 ELSE LenUtf8(Head(s)) + StrLen(Tail(s))

\* str::is_char_boundary
IsCharBoundary(s, b) == \E k \in 0..Len(s) : StrLen(SubSeq(s, 1, k)) = b

\* &s[from..to] with byte indices: the characters between the two
\* boundaries, or a panic when from > to, to > len or an index falls inside a
\* character.
StrSliceOk(s, from, to) ==
    /\ from <= to
    /\ to <= StrLen(s)
    /\ IsCharBoundary(s, from)
    /\ IsCharBoundary(s, to)

StrSlice(s, from, to) ==
    LET a == CHOOSE k \in 0..Len(s) : StrLen(SubSeq(s, 1, k)) = from
        b == CHOOSE k \in 0..Len(s) : StrLen(SubSeq(s, 1, k)) = to
    IN  SubSeq(s, a + 1, b)

----------------------------------------------------------------------------
\* Integer parsing: u8::from_str_radix(_, 16) and u32::from_str_radix(_, 16).

\* char::to_digit(16), -1 for None.
ToDigit16(c) ==
    IF c >= 48 /\ c <= 57 THEN c - 48
    ELSE IF c >= 97 /\ c <= 102 THEN c - 97 + 10
    ELSE IF c >= 65 /\ c <= 70 THEN c - 65 + 10
    ELSE -1

RECURSIVE StripZeros(_)
StripZeros(s) == IF s # <<>> /\ Head(s) = 48 THEN StripZeros(Tail(s)) ELSE s

RECURSIVE HexValue(_, _)
HexValue(s, acc) ==
    IF s = <<>> THEN acc ELSE HexValue(Tail(s), acc * 16 + ToDigit16(Head(s)))

\* An unsigned type of `bits` bits: Err (-1) for an empty string, a lone
\* sign, a character that is no hexadecimal digit (a `-` included) and a
\* value that does not fit; a leading `+` is skipped.  A value of more than
\* seven significant digits is reported as 16^7: it fits a u32 when it has
\* eight, and nothing that reads it tells it from any other value above
\* 0x10FFFF.
FromStrRadix16(src, bits) ==
    LET digits == IF src # <<>> /\ Head(src) = 43 THEN Tail(src) ELSE src
        sig == StripZeros(digits)
    IN  IF src = <<>> THEN -1
        ELSE IF digits = <<>> THEN -1
        ELSE IF \E i \in 1..Len(digits) : ToDigit16(digits[i]) = -1 THEN -1
        ELSE IF Len(sig) * 4 > bits THEN -1
        ELSE IF Len(sig) > 7 THEN 268435456
        ELSE HexValue(sig, 0)

\* char::from_u32: Some exactly for the Unicode scalar values.
IsScalarValue(v) == v <= 1114111 /\ ~(v >= 55296 /\ v <= 57343)

----------------------------------------------------------------------------
\* The parse tree: what the grammar (kconfig.pest) hands to the conversion.
\* A Pair is a record: its rule, its text (`str`, kept for string nodes), its
\* span and its inner pairs.  A span names the node it covers: the position
\* of its directive in the file and its rule.

SourceTokens == {"K_SOURCE", "K_RSOURCE", "K_OSOURCE", "K_ORSOURCE"}

KeywordPair(i, k) == [rule |-> k, str |-> <<>>, span |-> <<i, k>>, inner |-> <<>>]

SourceTokenPair(i, k) ==
    [rule |-> "source_token", str |-> <<>>, span |-> <<i, "source_token">>,
     inner |-> <<KeywordPair(i, k)>>]

StringPair(i, lit) ==
    [rule |-> "string", str |-> lit, span |-> <<i, "string">>, inner |-> <<>>]

SourceDirectivePair(i, d) ==
    [rule |-> "source_directive", str |-> <<>>, span |-> <<i, "source_directive">>,
     inner |-> <<SourceTokenPair(i, d[1]), StringPair(i, d[2])>>]

TopLevelPair(i, d) ==
    [rule |-> "top_level", str |-> <<>>, span |-> <<i, "top_level">>,
     inner |-> <<SourceDirectivePair(i, d)>>]

FilePair(ds) ==
    [rule |-> "file", str |-> <<>>, span |-> <<0, "file">>,
     inner |-> [i \in 1..Len(ds) |-> TopLevelPair(i, ds[i])]]

\* The string rule: a quote, then ordinary characters (neither quote nor
\* backslash) and escapes (a backslash and the character after it), then a
\* quote.
Quoted(interior) == <<QUOTE>> \o interior \o <<QUOTE>>

\* Ordinary characters: `a` and the two-byte `e` with acute accent.
Ordinary == {97, 233}

\* Characters after a backslash: n, 0, \, ', ", x, u and q.
Escaped == {CH_n, CH_0, BACKSLASH, CH_APOSTROPHE, QUOTE, CH_x, CH_u, 113}

\* Runs of ordinary characters that the hex and unicode escapes read:
\* 41, 4g, +4, {41}, {D800}, {}, {4
Runs ==
    { <<52, 49>>, <<52, 103>>, <<43, 52>>,
      <<LBRACE, 52, 49, RBRACE>>,
      <<LBRACE, 68, 56, 48, 48, RBRACE>>,
      <<LBRACE, RBRACE>>,
      <<LBRACE, 52>> }

Units == {<<c>> : c \in Ordinary} \cup {<<BACKSLASH, c>> : c \in Escaped} \cup Runs

Affixes == {<<>>, <<97>>}

\* A literal of a one-directive file: units between an optional first and
\* an optional last `a`.
Literal(pre, us, suf) == Quoted(pre \o Concat(us) \o suf)

\* Literals of the files of several directives: "", "a", "a\qa", "\n".
FileLiterals ==
    { Quoted(<<>>), Quoted(<<97>>), Quoted(<<97, BACKSLASH, 113, 97>>),
      Quoted(<<BACKSLASH, CH_n>>) }

\* The files of the model: up to MaxDirectives directives with a literal of
\* FileLiterals each, or one directive with a literal of up to MaxUnits units.
IsShortFile(f) ==
    \E ds \in SeqsUpTo(SourceTokens \X FileLiterals, MaxDirectives) : f = FilePair(ds)

IsOneDirectiveFile(f) ==
    \E k \in SourceTokens, pre \in Affixes, suf \in Affixes,
       us \in SeqsUpTo(Units, MaxUnits) :
        f = FilePair(<< <<k, Literal(pre, us, suf)>> >>)

----------------------------------------------------------------------------
\* Values.

NoError == [message |-> "", arg |-> <<>>, span |-> <<0, "">>]

\* Error::new_from_span(ErrorVariant::CustomError { message }, span); the
\* message is its fixed text and the text formatted into it.
CustomError(message, arg, span) == [message |-> message, arg |-> arg, span |-> span]

\* Result<Cow<str>, Error<Rule>>
NoResult == [tag |-> "None", val |-> <<>>, borrowed |-> FALSE, err |-> NoError]
OkBorrowed(s) == [tag |-> "Ok", val |-> s, borrowed |-> TRUE, err |-> NoError]
OkOwned(s) == [tag |-> "Ok", val |-> s, borrowed |-> FALSE, err |-> NoError]
Err(e) == [tag |-> "Err", val |-> <<>>, borrowed |-> FALSE, err |-> e]

\* What KConfigFile::try_from produced.
Pending == [tag |-> "Pending", blocks |-> <<>>, err |-> NoError, panic |-> "", site |-> ""]
OkFile(bs) == [tag |-> "Ok", blocks |-> bs, err |-> NoError, panic |-> "", site |-> ""]
ErrFile(e) == [tag |-> "Err", blocks |-> <<>>, err |-> e, panic |-> "", site |-> ""]
\* A panic: its message and the function that raised it.
Panic(site, msg) ==
    [tag |-> "Panic", blocks |-> <<>>, err |-> NoError, panic |-> msg, site |-> site]

\* check_rule!: the located error for a pair of another rule.
NotA(rule, pair) == CustomError("not a " \o rule, <<>>, pair.span)

----------------------------------------------------------------------------
\* SourceType.

SourceTypes == {"Source", "RSource", "OSource", "ORSource"}

\* is_optional without its second pattern.
is_optional_OSourceOnly(t) == t \in {"OSource"}

is_optional(t) == t \in {"OSource", "ORSource"}

is_relative(t) == t \in {"RSource", "ORSource"}

\* SourceType::try_from: [ok, val, err].
RECURSIVE SourceTypeTryFrom(_)
SourceTypeTryFrom(pair) ==
    CASE pair.rule = "K_SOURCE" -> [ok |-> TRUE, val |-> "Source", err |-> NoError]
      [] pair.rule = "K_RSOURCE" -> [ok |-> TRUE, val |-> "RSource", err |-> NoError]
      [] pair.rule = "K_OSOURCE" -> [ok |-> TRUE, val |-> "OSource", err |-> NoError]
      [] pair.rule = "K_ORSOURCE" -> [ok |-> TRUE, val |-> "ORSource", err |-> NoError]
      [] pair.rule = "source_token" -> SourceTypeTryFrom(pair.inner[1])
      [] OTHER -> [ok |-> FALSE, val |-> "",
                   err |-> CustomError("not a source token", <<>>, pair.span)]

----------------------------------------------------------------------------
\* The state after the grammar has produced the tree and before
\* KConfigFile::try_from runs.

NoFacets == [block |-> 0, source_type |-> "", optional |-> FALSE, relative |-> FALSE]

Init ==
    /\ IsShortFile(file) \/ IsOneDirectiveFile(file)
    /\ pc = "KConfigFile"
    /\ idx = 1
    /\ blocks = <<>>
    /\ source_type = ""
    /\ chars = <<>>
    /\ result = <<>>
    /\ ret = NoResult
    /\ out = Pending
    /\ facets = NoFacets

\* A panic unwinds out of every frame: nothing runs after it.
PanicWith(site, msg) ==
    /\ pc' = "panicked"
    /\ out' = Panic(site, msg)

\* The pairs at hand while directive idx is converted.
TopLevelOf(f, i) == f.inner[i]
DirectiveOf(f, i) == TopLevelOf(f, i).inner[1]
StringOf(f, i) == DirectiveOf(f, i).inner[2]

\* Interior with an end index one too far: the closing quote stays.
InteriorKeepsClosingQuote(literal) == StrSlice(literal, 1, StrLen(literal))

\* The interior of a literal: `&literal[1..literal.len() - 1]`.
Interior(literal) == StrSlice(literal, 1, StrLen(literal) - 1)

----------------------------------------------------------------------------
\* KConfigFile::try_from

\* Lines 51-54: check_rule!(pair, file); let mut blocks = Vec::new().
KConfigFileTryFrom ==
    /\ pc = "KConfigFile"
    /\ IF file.rule # "file"
       THEN /\ pc' = "returned"
            /\ out' = ErrFile(NotA("file", file))
            /\ UNCHANGED <<blocks, idx>>
       ELSE /\ pc' = "for"
            /\ blocks' = <<>>
            /\ idx' = 1
            /\ out' = out
    /\ UNCHANGED <<file, source_type, chars, result, ret, facets>>

\* Lines 55, 59-61: the iterator is exhausted; Ok(Self { blocks }).
KConfigFileReturn ==
    /\ pc = "for"
    /\ idx > Len(file.inner)
    /\ pc' = "returned"
    /\ out' = OkFile(blocks)
    /\ UNCHANGED <<file, idx, blocks, source_type, chars, result, ret, facets>>

\* Lines 55-56 and 75-83: the next pair goes to TopLevel::try_from, which
\* checks its rule, takes its only inner pair and matches on its rule.
TopLevelTryFrom ==
    /\ pc = "for"
    /\ idx <= Len(file.inner)
    /\ LET pair == TopLevelOf(file, idx)
       IN  IF pair.rule # "top_level"
           THEN \* check_rule! returns Err, and `?` on line 56 returns it.
                /\ pc' = "returned"
                /\ out' = ErrFile(NotA("top_level", pair))
           ELSE IF Len(pair.inner) = 0
           THEN PanicWith("TopLevel::try_from", "called Option::unwrap() on a None value")
           ELSE IF Len(pair.inner) > 1
           THEN PanicWith("TopLevel::try_from", "assertion failed: pairs.next().is_none()")
           ELSE IF pair.inner[1].rule # "source_directive"
           THEN PanicWith("TopLevel::try_from", "internal error: entered unreachable code: not a top-level")
           ELSE /\ pc' = "SourceDirective"
                /\ out' = out
    /\ UNCHANGED <<file, idx, blocks, source_type, chars, result, ret, facets>>

\* Lines 152-157: SourceDirective::try_from up to the call of
\* parse_string_literal.
SourceDirectiveTryFrom ==
    /\ pc = "SourceDirective"
    /\ LET pair == DirectiveOf(file, idx)
           st == SourceTypeTryFrom(pair.inner[1])
       IN  IF pair.rule # "source_directive"
           THEN /\ pc' = "unwrap"
                /\ ret' = Err(NotA("source_directive", pair))
                /\ UNCHANGED <<source_type, out>>
           ELSE IF Len(pair.inner) = 0
           THEN /\ PanicWith("SourceDirective::try_from", "called Option::unwrap() on a None value")
                /\ UNCHANGED <<source_type, ret>>
           ELSE IF ~st.ok
           THEN /\ pc' = "unwrap"
                /\ ret' = Err(st.err)
                /\ UNCHANGED <<source_type, out>>
           ELSE IF Len(pair.inner) < 2
           THEN /\ PanicWith("SourceDirective::try_from", "called Option::unwrap() on a None value")
                /\ UNCHANGED <<source_type, ret>>
           ELSE /\ pc' = "parse_string_literal"
                /\ source_type' = st.val
                /\ ret' = NoResult
                /\ out' = out
    /\ UNCHANGED <<file, idx, blocks, chars, result, facets>>

----------------------------------------------------------------------------
\* parse_string_literal

\* Lines 166-170: the four assertions.
LiteralAsserts(pair) ==
    /\ pair.rule = "string"
    /\ StrLen(pair.str) >= 2
    /\ Head(pair.str) = QUOTE
    /\ pair.str[Len(pair.str)] = QUOTE

\* Lines 166-175: the literal without its quotes holds no backslash and is
\* returned as it is, borrowed.
ParseStringLiteralBorrowed ==
    /\ pc = "parse_string_literal"
    /\ LET pair == StringOf(file, idx)
       IN  /\ LiteralAsserts(pair) => ~Contains(Interior(pair.str), BACKSLASH)
           /\ IF ~LiteralAsserts(pair)
              THEN /\ PanicWith("parse_string_literal", "assertion failed")
                   /\ ret' = ret
              ELSE /\ pc' = "filename_glob"
                   /\ ret' = OkBorrowed(Interior(pair.str))
                   /\ out' = out
    /\ UNCHANGED <<file, idx, blocks, source_type, chars, result, facets>>

\* Lines 177-178: what the scan reads, `literal[1..literal.len() - 1]` of
\* the literal that has already lost its quotes.
Scanned(literal) == StrSlice(literal, 1, StrLen(literal) - 1)

\* Lines 172-178: the literal without its quotes holds a backslash: the
\* result is allocated and the iterator made.  `literal.len() - 2` underflows
\* for a length below 2 (a panic in a debug build, and String::with_capacity
\* panics on the wrapped value in a release build); the slice panics when an
\* index is not a character boundary.
ParseStringLiteralOwned ==
    /\ pc = "parse_string_literal"
    /\ LET pair == StringOf(file, idx)
           literal == Interior(pair.str)
       IN  /\ LiteralAsserts(pair)
           /\ Contains(literal, BACKSLASH)
           /\ IF StrLen(literal) < 2
              THEN /\ PanicWith("parse_string_literal", "attempt to subtract with overflow")
                   /\ UNCHANGED <<chars, result>>
              ELSE IF ~StrSliceOk(literal, 1, StrLen(literal) - 1)
              THEN /\ PanicWith("parse_string_literal", "byte index is not a char boundary")
                   /\ UNCHANGED <<chars, result>>
              ELSE /\ pc' = "loop"
                   /\ chars' = Scanned(literal)
                   /\ result' = <<>>
                   /\ out' = out
    /\ UNCHANGED <<file, idx, blocks, source_type, ret, facets>>

\* Line 180: chars.next().unwrap() on an exhausted iterator.
ScanEnd ==
    /\ pc = "loop"
    /\ chars = <<>>
    /\ PanicWith("parse_string_literal", "called Option::unwrap() on a None value")
    /\ UNCHANGED <<file, idx, blocks, source_type, chars, result, ret, facets>>

\* Lines 180-184: a character other than a backslash is pushed.
ScanChar ==
    /\ pc = "loop"
    /\ chars # <<>>
    /\ Head(chars) # BACKSLASH
    /\ result' = Append(result, Head(chars))
    /\ chars' = Tail(chars)
    /\ UNCHANGED <<file, pc, idx, blocks, source_type, ret, out, facets>>

\* The iterator stands at a backslash.
AtEscape == pc = "loop" /\ chars # <<>> /\ Head(chars) = BACKSLASH

\* Line 186: chars.next().unwrap() after a backslash that ends the iterator.
EscapeEnd ==
    /\ AtEscape
    /\ Tail(chars) = <<>>
    /\ PanicWith("parse_string_literal", "called Option::unwrap() on a None value")
    /\ chars' = <<>>
    /\ UNCHANGED <<file, idx, blocks, source_type, result, ret, facets>>

\* Lines 188-194: the seven one-character escapes.
SimpleEscapes == {CH_n, CH_r, CH_t, BACKSLASH, CH_0, CH_APOSTROPHE, QUOTE}

SimpleEscape(c) ==
    CASE c = CH_n -> NEWLINE
      [] c = CH_r -> CARRIAGE_RETURN
      [] c = CH_t -> TAB
      [] c = BACKSLASH -> BACKSLASH
      [] c = CH_0 -> NUL
      [] c = CH_APOSTROPHE -> CH_APOSTROPHE
      [] c = QUOTE -> QUOTE

EscapeSimple ==
    /\ AtEscape
    /\ Tail(chars) # <<>>
    /\ chars[2] \in SimpleEscapes
    /\ result' = Append(result, SimpleEscape(chars[2]))
    /\ chars' = Tail(Tail(chars))
    /\ UNCHANGED <<file, pc, idx, blocks, source_type, ret, out, facets>>

\* Lines 195-208: \x and the two characters after it.
EscapeHex ==
    /\ AtEscape
    /\ Tail(chars) # <<>>
    /\ chars[2] = CH_x
    /\ IF Len(chars) < 4
       THEN /\ PanicWith("parse_string_literal", "called Option::unwrap() on a None value")
            /\ chars' = <<>>
            /\ UNCHANGED <<result, ret>>
       ELSE LET hex == SubSeq(chars, 3, 4)
                c == FromStrRadix16(hex, 8)
            IN  /\ chars' = SubSeq(chars, 5, Len(chars))
                /\ IF c = -1
                   THEN /\ pc' = "filename_glob"
                        /\ ret' = Err(CustomError("invalid hex escape: \\x", hex,
                                                  StringOf(file, idx).span))
                        /\ UNCHANGED <<result, out>>
                   ELSE /\ result' = Append(result, c)
                        /\ UNCHANGED <<pc, ret, out>>
    /\ UNCHANGED <<file, idx, blocks, source_type, facets>>

\* Lines 209-236: \u, an opening brace, the characters up to the closing
\* brace.
EscapeUnicode ==
    /\ AtEscape
    /\ Tail(chars) # <<>>
    /\ chars[2] = CH_u
    /\ LET rest == SubSeq(chars, 3, Len(chars))
       IN  IF rest = <<>>
           THEN /\ PanicWith("parse_string_literal", "called Option::unwrap() on a None value")
                /\ chars' = <<>>
                /\ UNCHANGED <<result, ret>>
           ELSE IF Head(rest) # LBRACE
           THEN /\ PanicWith("parse_string_literal", "assertion left == right failed")
                /\ chars' = Tail(rest)
                /\ UNCHANGED <<result, ret>>
           ELSE IF ~Contains(Tail(rest), RBRACE)
           THEN /\ PanicWith("parse_string_literal", "called Option::unwrap() on a None value")
                /\ chars' = <<>>
                /\ UNCHANGED <<result, ret>>
           ELSE LET body == Tail(rest)
                    close == CHOOSE i \in 1..Len(body) :
                                 /\ body[i] = RBRACE
                                 /\ \A j \in 1..(i - 1) : body[j] # RBRACE
                    hex == SubSeq(body, 1, close - 1)
                    c == FromStrRadix16(hex, 32)
                IN  /\ chars' = SubSeq(body, close + 1, Len(body))
                    /\ IF c = -1
                       THEN /\ pc' = "filename_glob"
                            /\ ret' = Err(CustomError("invalid unicode escape: \\u", hex,
                                                      StringOf(file, idx).span))
                            /\ UNCHANGED <<result, out>>
                       ELSE IF ~IsScalarValue(c)
                       THEN /\ pc' = "filename_glob"
                            /\ ret' = Err(CustomError("invalid unicode codepoint: \\u", hex,
                                                      StringOf(file, idx).span))
                            /\ UNCHANGED <<result, out>>
                       ELSE /\ result' = Append(result, c)
                            /\ UNCHANGED <<pc, ret, out>>
    /\ UNCHANGED <<file, idx, blocks, source_type, facets>>

\* Lines 237-244: any other character after a backslash.
EscapeInvalid ==
    /\ AtEscape
    /\ Tail(chars) # <<>>
    /\ chars[2] \notin SimpleEscapes \cup {CH_x, CH_u}
    /\ pc' = "filename_glob"
    /\ ret' = Err(CustomError("invalid escape: \\", <<chars[2]>>, StringOf(file, idx).span))
    /\ chars' = Tail(Tail(chars))
    /\ UNCHANGED <<file, idx, blocks, source_type, result, out, facets>>

----------------------------------------------------------------------------
\* Back in the callers.

\* Lines 157-161: `?` on the result of parse_string_literal; the struct is
\* built of source_type and the decoded string, or the error is returned as
\* it is.
SourceDirectiveReturn ==
    /\ pc = "filename_glob"
    /\ pc' = "unwrap"
    /\ UNCHANGED <<file, idx, blocks, source_type, chars, result, ret, out, facets>>

\* TopLevel::SourceDirective(SourceDirective { source_type, filename_glob })
Block(t, r) ==
    [variant |-> "SourceDirective", source_type |-> t,
     filename_glob |-> r.val, borrowed |-> r.borrowed]

\* Line 83 and line 56: TopLevel::try_from unwraps the result of
\* SourceDirective::try_from and wraps the directive; KConfigFile::try_from
\* pushes it and goes on with the next pair.
TopLevelUnwrap ==
    /\ pc = "unwrap"
    /\ IF ret.tag = "Err"
       THEN /\ PanicWith("TopLevel::try_from", "called Result::unwrap() on an Err value")
            /\ UNCHANGED <<blocks, idx>>
       ELSE /\ blocks' = Append(blocks, Block(source_type, ret))
            /\ idx' = idx + 1
            /\ pc' = "for"
            /\ out' = out
    /\ UNCHANGED <<file, source_type, chars, result, ret, facets>>

\* The caller of the library reads the two facets of a block of the file it
\* was given: source_type.is_optional() and source_type.is_relative().
ReadFacets ==
    /\ pc = "returned"
    /\ out.tag = "Ok"
    /\ \E i \in 1..Len(out.blocks) :
          facets' = [block |-> i,
                     source_type |-> out.blocks[i].source_type,
                     optional |-> is_optional(out.blocks[i].source_type),
                     relative |-> is_relative(out.blocks[i].source_type)]
    /\ UNCHANGED <<file, pc, idx, blocks, source_type, chars, result, ret, out>>

Next ==
    \/ KConfigFileTryFrom
    \/ KConfigFileReturn
    \/ TopLevelTryFrom
    \/ SourceDirectiveTryFrom
    \/ ParseStringLiteralBorrowed
    \/ ParseStringLiteralOwned
    \/ ScanEnd
    \/ ScanChar
    \/ EscapeEnd
    \/ EscapeSimple
    \/ EscapeHex
    \/ EscapeUnicode
    \/ EscapeInvalid
    \/ SourceDirectiveReturn
    \/ TopLevelUnwrap
    \/ ReadFacets

Spec == Init /\ [][Next]_vars

----------------------------------------------------------------------------
\* What the specification of the decoder asks for, written from its words:
\* the escapes and their meaning, independent of the definitions above.

\* The directive being converted, its literal, and the literal with its first
\* and its last character removed.
Current == StringOf(file, idx)
Unquoted(literal) == SubSeq(literal, 2, Len(literal) - 1)

\* parse_string_literal is over for the current directive: it returned, or
\* it panicked.
DecoderReturned == pc = "filename_glob"
DecoderPanicked == pc = "panicked" /\ out.site = "parse_string_literal"
DecoderDone == DecoderReturned \/ DecoderPanicked

IsHexDigit(c) == (c >= 48 /\ c <= 57) \/ (c >= 97 /\ c <= 102) \/ (c >= 65 /\ c <= 70)
HexDigitValue(c) == IF c <= 57 THEN c - 48 ELSE IF c <= 70 THEN c - 55 ELSE c - 87

RECURSIVE HexNumber(_)
HexNumber(ds) ==
    IF ds = <<>> THEN 0
    ELSE HexNumber(SubSeq(ds, 1, Len(ds) - 1)) * 16 + HexDigitValue(ds[Len(ds)])

\* A run of digits without its leading zeros.
RECURSIVE Significant(_)
Significant(ds) == IF ds # <<>> /\ Head(ds) = 48 THEN Significant(Tail(ds)) ELSE ds

\* newline, carriage return, tab, backslash, NUL, apostrophe, quote
StandardMeaning(c) ==
    CASE c = 110 -> 10 [] c = 114 -> 13 [] c = 116 -> 9 [] c = 92 -> 92
      [] c = 48 -> 0 [] c = 39 -> 39 [] c = 34 -> 34

\* The letters after the backslashes of an interior, read left to right; -1
\* for a backslash that ends the interior.
RECURSIVE EscapeLetters(_)
EscapeLetters(s) ==
    IF s = <<>> THEN {}
    ELSE IF Head(s) # 92 THEN EscapeLetters(Tail(s))
    ELSE IF Len(s) < 2 THEN {-1}
    ELSE {s[2]} \cup EscapeLetters(SubSeq(s, 3, Len(s)))

\* The decoded text of an interior: kind "ok" with the text, "truncated"
\* when the interior ends inside an escape, "invalid" for any other malformed
\* escape.
Decoded(kind, val) == [kind |-> kind, val |-> val]

Cons(c, d) == IF d.kind = "ok" THEN Decoded("ok", <<c>> \o d.val) ELSE d

RECURSIVE Meaning(_)
Meaning(s) ==
    IF s = <<>> THEN Decoded("ok", <<>>)
    ELSE IF Head(s) # 92 THEN Cons(Head(s), Meaning(Tail(s)))
    ELSE IF Len(s) < 2 THEN Decoded("truncated", <<>>)
    ELSE IF s[2] \in {110, 114, 116, 92, 48, 39, 34}
    THEN Cons(StandardMeaning(s[2]), Meaning(SubSeq(s, 3, Len(s))))
    ELSE IF s[2] = 120
    THEN IF Len(s) < 4 THEN Decoded("truncated", <<>>)
         ELSE IF IsHexDigit(s[3]) /\ IsHexDigit(s[4])
         THEN Cons(HexNumber(SubSeq(s, 3, 4)), Meaning(SubSeq(s, 5, Len(s))))
         ELSE Decoded("invalid", <<>>)
    ELSE IF s[2] = 117
    THEN IF Len(s) < 3 THEN Decoded("truncated", <<>>)
         ELSE IF s[3] # 123 THEN Decoded("invalid", <<>>)
         ELSE IF ~\E i \in 4..Len(s) : s[i] = 125 THEN Decoded("truncated", <<>>)
         ELSE LET close == CHOOSE i \in 4..Len(s) :
                               s[i] = 125 /\ \A j \in 4..(i - 1) : s[j] # 125
                  ds == SubSeq(s, 4, close - 1)
              IN  IF ds = <<>> \/ \E i \in 1..Len(ds) : ~IsHexDigit(ds[i])
                  THEN Decoded("invalid", <<>>)
                  ELSE IF Len(Significant(ds)) > 6
                          \/ HexNumber(Significant(ds)) > 1114111
                          \/ (HexNumber(ds) >= 55296 /\ HexNumber(ds) <= 57343)
                  THEN Decoded("invalid", <<>>)
                  ELSE Cons(HexNumber(ds), Meaning(SubSeq(s, close + 1, Len(s))))
    ELSE Decoded("invalid", <<>>)

\* The variant of a keyword.
VariantOf(k) ==
    CASE k = "K_SOURCE" -> "Source" [] k = "K_RSOURCE" -> "RSource"
      [] k = "K_OSOURCE" -> "OSource" [] k = "K_ORSOURCE" -> "ORSource"

KeywordOf(f, i) == DirectiveOf(f, i).inner[1].inner[1].rule
LiteralOf(f, i) == StringOf(f, i).str

HasBackslash(s) == \E i \in 1..Len(s) : s[i] = 92

AllDecodable(f) ==
    \A i \in 1..Len(f.inner) : Meaning(Unquoted(LiteralOf(f, i))).kind = "ok"

Finished == pc \in {"returned", "panicked"}

----------------------------------------------------------------------------
\* The claims.

\* C1: when decoding the literal of a directive fails, the conversion of the
\* file returns that same error, span and message unchanged, as an error
\* value: it does not panic and returns no KConfigFile.
C1_DecodeErrorReturned ==
    (Finished /\ ret.tag = "Err") => out = ErrFile(ret.err)

\* C2: a literal whose escapes are all among \n \r \t \\ \0 \' \" decodes to
\* its interior with each escape replaced by its standard character.
C2_SimpleEscapesDecoded ==
    LET interior == Unquoted(Current.str)
    IN  (/\ DecoderDone
         /\ EscapeLetters(interior) # {}
         /\ EscapeLetters(interior) \subseteq {110, 114, 116, 92, 48, 39, 34})
        => (ret.tag = "Ok" /\ ret.val = Meaning(interior).val)

\* C3: \x and two hexadecimal digits decode to the character of that byte
\* value; \x and two characters that are not both hexadecimal digits give a
\* located decode error naming them, and no decoded text.
C3_HexEscapes ==
    LET interior == Unquoted(Current.str)
        m == Meaning(interior)
    IN  (DecoderDone /\ EscapeLetters(interior) = {120})
        => /\ m.kind = "ok" => (ret.tag = "Ok" /\ ret.val = m.val)
           /\ m.kind = "invalid" =>
                (ret.tag = "Err" /\ ret.err.span = Current.span
                    /\ \E i \in 1..(Len(interior) - 1) :
                          ret.err.arg = SubSeq(interior, i, i + 1))

\* C4: \u{ hexadecimal digits } decodes to the scalar value of that number;
\* a number that is no scalar value, no digits, a digit that is not
\* hexadecimal or a missing brace give a located decode error, never a panic
\* and never decoded text.
C4_UnicodeEscapes ==
    LET interior == Unquoted(Current.str)
        m == Meaning(interior)
    IN  (DecoderDone /\ EscapeLetters(interior) = {117})
        => /\ m.kind = "ok" => (ret.tag = "Ok" /\ ret.val = m.val)
           /\ m.kind # "ok" => (ret.tag = "Err" /\ ret.err.span = Current.span)

\* C5: a literal in which a backslash is followed by a character other than
\* n r t \ 0 ' " x u gives a decode error whose span is that of the whole
\* literal and whose message names the escape.
C5_UnrecognizedEscape ==
    LET interior == Unquoted(Current.str)
    IN  (/\ DecoderDone
         /\ \E c \in EscapeLetters(interior) :
               c \notin {110, 114, 116, 92, 48, 39, 34, 120, 117, -1})
        => (ret.tag = "Err" /\ ret.err.span = Current.span /\ ret.err.message # "")

\* C6: a literal whose interior ends in the middle of an escape gives a
\* located decode error: no decoded string and no panic.
C6_TruncatedEscape ==
    (DecoderDone /\ Meaning(Unquoted(Current.str)).kind = "truncated")
    => (ret.tag = "Err" /\ ret.err.span = Current.span)

\* C7: a literal whose interior holds no backslash decodes, borrowed, to
\* exactly the literal without its first and its last character.
C7_NoBackslashBorrowsInterior ==
    (DecoderDone /\ ~HasBackslash(Unquoted(Current.str)))
    => ret = OkBorrowed(Unquoted(Current.str))

\* The decoder returned the two-character interior of a literal without a
\* backslash.
C7_Witness ==
    /\ DecoderReturned
    /\ ~HasBackslash(Unquoted(Current.str))
    /\ Len(Unquoted(Current.str)) = 2
    /\ ret.tag = "Ok"

\* C8: a valid file of n directives converts to n blocks in source order,
\* the i-th a SourceDirective of the variant of the i-th keyword and the
\* decoded content of the i-th string.
C8_BlocksMatchDirectives ==
    (Finished /\ AllDecodable(file))
    => /\ out.tag = "Ok"
       /\ Len(out.blocks) = Len(file.inner)
       /\ \A i \in 1..Len(file.inner) :
            /\ out.blocks[i].variant = "SourceDirective"
            /\ out.blocks[i].source_type = VariantOf(KeywordOf(file, i))
            /\ out.blocks[i].filename_glob = Meaning(Unquoted(LiteralOf(file, i))).val

\* C9: optional exactly for OSource and ORSource, relative exactly for
\* RSource and ORSource, and the four variants give the four combinations.
C9_Facets ==
    /\ facets.source_type # "" =>
         /\ facets.optional <=> facets.source_type \in {"OSource", "ORSource"}
         /\ facets.relative <=> facets.source_type \in {"RSource", "ORSource"}
    /\ \A o \in BOOLEAN, r \in BOOLEAN :
         \E t \in SourceTypes : is_optional(t) = o /\ is_relative(t) = r

\* The caller read the facets of an ORSource block.
C9_Witness ==
    /\ facets.source_type = "ORSource"
    /\ facets.optional
    /\ facets.relative

\* C10: the scan of a literal with a backslash ends by returning: once the
\* last character is consumed with no escape pending, the accumulated string
\* is returned as success.
C10_ScanReturnsAtEnd ==
    [][(pc = "loop" /\ chars = <<>>)
        => (pc' = "filename_glob" /\ ret' = OkOwned(result))]_vars

====
